---------------------------- MODULE Spec2Model ----------------------------
(***************************************************************************)
(* A model of three parts of aerosim:                                      *)
(*                                                                         *)
(*   - generate_scenario_json (aerosim/utils/scenario_generator.py), the   *)
(*     assembly of a scenario document from a folder of trajectory files;  *)
(*   - ArtificialTrackGenerator (aerosim_utils/artificial_tracks.py), the  *)
(*     orchestration of N artificial tracks, and its track generators;     *)
(*   - filter_tracks, process_csv and convert_tracks_to_json               *)
(*     (aerosim_utils/conversion.py), the per-track files.                 *)
(*                                                                         *)
(* Python strings the code takes apart or compares (file names, track      *)
(* ids, actor and topic names, paths) are sequences of one-character       *)
(* strings, so that endswith, split, sort and the f-string concatenations  *)
(* are computed.  Strings the code only copies are TLA+ strings.  A Python *)
(* dict is a record, the empty dict is the empty function << >>, a Python  *)
(* list is a sequence.                                                     *)
(***************************************************************************)
EXTENDS Integers, Sequences, FiniteSets, TLC

VARIABLES
    dir,                      \* the trajectories folder: file name -> parsed JSON content
    listing,                  \* the order in which os.listdir returned the names (last call)
    sensor_configs,           \* the caller's sensor_configs argument object
    add_sensors_to_vehicles,  \* the caller's add_sensors_to_vehicles argument object
    targets_in,               \* value of add_sensors_to_vehicles when the last call began
    output_file,              \* the document written by the last call, NoneValue before
    cfg,                      \* the constructor arguments kept by an ArtificialTrackGenerator
    selector_arg,             \* the track_generator_class argument as the caller wrote it
    tracks,                   \* its self.tracks
    ownship_file,             \* the file at ownship_trajectory_file: NoneValue when absent
    rng,                      \* the state of the random module
    generated,                \* how the last generate() ended, and what it returned
    csv_file,                 \* the file save_to_csv wrote at filepath, NoneValue before
    saved,                    \* how the last save_to_csv() ended, NoneValue before
    csv_folder,               \* input_folder of convert_tracks_to_json, in os.listdir order
    json_folder,              \* the files written into output_folder, in order; NoneValue before
    converted,                \* how the last convert_tracks_to_json() ended
    input_csv,                \* the rows of the file at input_csv_path of filter_tracks
    filtered_csv,             \* the rows written to filtered_csv_path, NoneValue before
    tracks_folder,            \* the files written into tracks_folder, in order; NoneValue before
    filtered,                 \* how the last filter_tracks() ended
    processed,                \* how the last process_csv() ended, and what it returned
    base_generator,           \* a BaseTrackGenerator constructed on its own, NoneValue if none
    track_point,              \* the last point its _create_track_point returned
    relative_generator,       \* an OwnshipRelativeTrackGenerator constructed on its own
    relative_track            \* how its last generate() ended, and what it returned

scenarioVars == <<dir, listing, sensor_configs, add_sensors_to_vehicles, targets_in, output_file>>

trackVars == <<cfg, selector_arg, tracks, ownship_file, rng, generated, csv_file, saved>>

conversionVars == <<csv_folder, json_folder, converted, input_csv, filtered_csv, tracks_folder, filtered, processed>>

pointVars == <<base_generator, track_point, relative_generator, relative_track>>

vars == <<scenarioVars, trackVars, conversionVars, pointVars>>

-----------------------------------------------------------------------------
(* Bounds *)

MaxFiles == 2         \* files in the trajectories folder

MaxTracks == 3        \* num_tracks

MaxPoints == 3        \* num_points, beside the example's

RngPeriod == 3        \* distinct states of the random module

-----------------------------------------------------------------------------
(* Python values *)

\* An argument or file that may be None or absent: << >> for None, <<v>> for v.
NoneValue == << >>

Some(v) == <<v>>

ValueOf(opt) == opt[1]

EmptyDict == << >>

\* The characters of the model's strings, in code point order (str comparison
\* is by code point).
CharOrder ==
    <<".", "/", "0", "1", "2", "3", "4", "5", "6", "7", "8", "9", "_", "a", "b", "c", "d", "e", "f", "g", "h", "i",
      "j", "k", "l", "m", "n", "o", "p", "q", "r", "s", "t", "u", "v", "w", "x",
      "y", "z">>

Ord(c) == CHOOSE i \in 1..Len(CharOrder) : CharOrder[i] = c

\* a < b on str
StrLess(a, b) ==
    \E k \in 1..Len(b) :
        /\ \A j \in 1..(k - 1) : j <= Len(a) /\ a[j] = b[j]
        /\ \/ k > Len(a)
           \/ Ord(a[k]) < Ord(b[k])

\* s.endswith(suffix)
EndsWith(s, suffix) ==
    /\ Len(s) >= Len(suffix)
    /\ SubSeq(s, Len(s) - Len(suffix) + 1, Len(s)) = suffix

\* s.split(sep)[0] for a one-character sep
SplitFirst(s, sep) ==
    LET at == {i \in 1..Len(s) : s[i] = sep}
    IN  IF at = {} THEN s
        ELSE SubSeq(s, 1, (CHOOSE i \in at : \A j \in at : i <= j) - 1)

\* the file name alone
PathJoinNoFolder(a, b) == b

\* os.path.join(a, b) on POSIX
PathJoin(a, b) ==
    IF b # << >> /\ b[1] = "/" THEN b
    ELSE IF a = << >> \/ a[Len(a)] = "/" THEN a \o b
    ELSE a \o <<"/">> \o b

\* the insertion of x into a sorted list
RECURSIVE InsertSorted(_, _)
InsertSorted(x, s) ==
    IF s = << >> THEN <<x>>
    ELSE IF StrLess(x, Head(s)) THEN <<x>> \o s
    ELSE <<Head(s)>> \o InsertSorted(x, Tail(s))

\* the list left as os.listdir returned it
SortUnsorted(s) == s

\* list.sort() on a list of str
RECURSIVE SortStrings(_)
SortStrings(s) ==
    IF s = << >> THEN << >>
    ELSE InsertSorted(s[Len(s)], SortStrings(SubSeq(s, 1, Len(s) - 1)))

-----------------------------------------------------------------------------
(* String constants of generate_scenario_json *)

TRAJECTORY_SUFFIX == <<"_", "t", "r", "a", "j", "e", "c", "t", "o", "r", "y", ".", "j", "s", "o", "n">>

S_actor == <<"a", "c", "t", "o", "r">>

S_aerosim == <<"a", "e", "r", "o", "s", "i", "m", ".">>

S_vehicle_state == <<".", "v", "e", "h", "i", "c", "l", "e", "_", "s", "t", "a", "t", "e">>

S_trajectory_visualization ==
    <<".", "t", "r", "a", "j", "e", "c", "t", "o", "r", "y", "_", "v", "i", "s", "u", "a", "l",
      "i", "z", "a", "t", "i", "o", "n">>

S_effector1_state == <<".", "e", "f", "f", "e", "c", "t", "o", "r", "1", ".", "s", "t", "a", "t", "e">>

S_trajectory_follower == <<"t", "r", "a", "j", "e", "c", "t", "o", "r", "y", "_", "f", "o", "l", "l", "o", "w", "e", "r", "_">>

S_sensor_gnss == <<".", "s", "e", "n", "s", "o", "r", ".", "g", "n", "s", "s">>

S_sensor_adsb == <<".", "s", "e", "n", "s", "o", "r", ".", "a", "d", "s", "b">>

S_sensor_imu == <<".", "s", "e", "n", "s", "o", "r", ".", "i", "m", "u">>

S_trajectories == <<"t", "r", "a", "j", "e", "c", "t", "o", "r", "i", "e", "s">>

\* first_waypoint.get('alt', 116.09), in centimetres
DEFAULT_ORIGIN_ALT_CM == 11609

-----------------------------------------------------------------------------
(* generate_scenario_json *)

\* sensor_configs when the caller passes None
DefaultSensorConfigs ==
    << [sensor_name |-> "rgb_camera_0", type |-> "sensors/cameras/rgb_camera"] >>

DefaultViewportConfig == [active_camera |-> "rgb_camera_0"]

\* the base scenario structure
BaseScenario(configs, weather_preset, renderer_viewport_config) ==
    [ description |-> "Multi-intruder scenario generated from trajectories.",
      clock |-> [step_size_ms |-> 20, pace_1x_scale |-> TRUE],
      orchestrator |-> [sync_topics |-> << >>],
      world |-> [ update_interval_ms |-> 20,
                  origin |-> EmptyDict,
                  weather |-> [preset |-> weather_preset],
                  actors |-> << >>,
                  sensors |-> << >> ],
      renderers |-> << [ renderer_id |-> "0",
                         role |-> "primary",
                         sensors |-> [i \in 1..Len(configs) |-> configs[i].sensor_name],
                         viewport_config |-> renderer_viewport_config ] >>,
      fmu_models |-> << >> ]

\* every name of the listing
ListUnfiltered(names) == names

\* the filter on the extension alone
ListJsonFiles(names) ==
    SelectSeq(names, LAMBDA f : EndsWith(f, <<".", "j", "s", "o", "n">>))

\* [f for f in os.listdir(folder) if f.endswith('_trajectory.json')]
ListTrajectoryFiles(names) ==
    SelectSeq(names, LAMBDA f : EndsWith(f, TRAJECTORY_SUFFIX))

\* traj_file.split('_')[0]
TrackIdOf(traj_file) == SplitFirst(traj_file, "_")

ActorName(track_id) == S_actor \o track_id

VehicleTopic(actor_name) == S_aerosim \o actor_name \o S_vehicle_state

TrajectoryVisTopic(actor_name) == S_aerosim \o actor_name \o S_trajectory_visualization

EffectorTopic(actor_name) == S_aerosim \o actor_name \o S_effector1_state

\* the world origin taken from a waypoint
OriginOf(first_waypoint) ==
    [ latitude |-> first_waypoint.lat,
      longitude |-> first_waypoint.lon,
      altitude |-> IF "alt" \in DOMAIN first_waypoint
                   THEN first_waypoint.alt ELSE DEFAULT_ORIGIN_ALT_CM ]

\* a sync topic at another interval
SyncTopicOtherInterval(vehicle_topic) ==
    [topic |-> vehicle_topic, interval_ms |-> 10]

\* the entry appended to sync_topics
SyncTopicEntry(vehicle_topic) ==
    [topic |-> vehicle_topic, interval_ms |-> 20]

ActorEntry(track_id, actor_name) ==
    [ actor_name |-> actor_name,
      actor_asset |-> "vehicles/generic_airplane/generic_airplane",
      parent |-> "",
      description |-> <<"Trajectory follower ", track_id>>,
      state |-> [ msg_type |-> "aerosim::types::VehicleState",
                  topic |-> VehicleTopic(actor_name) ],
      effectors |-> << [ id |-> "propeller_front",
                         relative_path |-> "generic_airplane/propeller",
                         state |-> [ msg_type |-> "aerosim::types::EffectorState",
                                     topic |-> EffectorTopic(actor_name) ] ] >>,
      trajectory_visualization |->
          [ msg_type |-> "aerosim::types::TrajectoryVisualization",
            topic |-> TrajectoryVisTopic(actor_name) ] ]

\* sensor.copy() with 'parent' set
AttachedSensor(sensor, actor_name) ==
    [k \in DOMAIN sensor \cup {"parent"} |->
        IF k = "parent" THEN actor_name ELSE sensor[k]]

TrajFollowerFmu(track_id, actor_name, fmu_model_path, traj_path) ==
    [ id |-> S_trajectory_follower \o track_id,
      fmu_model_path |-> fmu_model_path,
      component_input_topics |-> << >>,
      component_output_topics |->
          << [ msg_type |-> "aerosim::types::VehicleState",
               topic |-> VehicleTopic(actor_name) ],
             [ msg_type |-> "aerosim::types::TrajectoryVisualization",
               topic |-> TrajectoryVisTopic(actor_name) ] >>,
      fmu_initial_vals |-> [ waypoints_json_path |-> traj_path,
                             number_of_future_waypoints |-> 1 ] ]

\* the gnss, adsb and imu publisher models of one actor
SensorFmu(id, path, actor_name, out_key, out_suffix) ==
    [ id |-> id,
      fmu_model_path |-> path,
      component_type |-> "sensor",
      component_input_topics |->
          << [ msg_type |-> "aerosim::types::VehicleState",
               topic |-> VehicleTopic(actor_name) ] >>,
      component_output_topics |-> << >>,
      fmu_initial_vals |-> [ key |-> out_key,
                             value |-> S_aerosim \o actor_name \o out_suffix ] ]

SensorFmus(actor_name) ==
    << SensorFmu("gnss_publisher", "fmu/gnss_sensor_fmu_model.fmu", actor_name,
                 "output_gnss_topic_name", S_sensor_gnss),
       SensorFmu("adsb_publisher", "fmu/adsb_sensor_fmu_model.fmu", actor_name,
                 "output_adsb_topic_name", S_sensor_adsb),
       SensorFmu("imu_publisher", "fmu/imu_sensor_fmu_model.fmu", actor_name,
                 "output_imu_topic_name", S_sensor_imu) >>

\* membership of a str in a list
InList(x, list) == \E i \in 1..Len(list) : list[i] = x

\* One iteration of the loop over trajectory_files; idx is the position of
\* traj_file in the sorted list, counted from 1.  st holds the scenario under
\* construction and the add_sensors_to_vehicles list.
ProcessFile(st, idx, traj_file, folder, folder_name, configs, fmu_model_path) ==
    LET track_id == TrackIdOf(traj_file)
        traj_path == PathJoin(folder_name, traj_file)
        waypoints == folder[traj_file]
        actor_name == ActorName(track_id)
        vehicle_topic == VehicleTopic(actor_name)
        scn1 == IF idx = 1
                THEN [st.scenario EXCEPT !.world.origin = OriginOf(waypoints[1])]
                ELSE st.scenario
        scn2 == [scn1 EXCEPT
                    !.orchestrator.sync_topics = Append(@, SyncTopicEntry(vehicle_topic)),
                    !.world.actors = Append(@, ActorEntry(track_id, actor_name))]
        targets == IF idx = 1 /\ st.targets = << >>
                   THEN Append(st.targets, actor_name)
                   ELSE st.targets
        scn3 == IF InList(actor_name, targets)
                THEN [scn2 EXCEPT !.world.sensors =
                        @ \o [i \in 1..Len(configs) |-> AttachedSensor(configs[i], actor_name)]]
                ELSE scn2
        scn4 == [scn3 EXCEPT !.fmu_models =
                    Append(@, TrajFollowerFmu(track_id, actor_name, fmu_model_path,
                                              PathJoin(folder_name, traj_file)))]
        scn5 == IF idx = 1
                THEN [scn4 EXCEPT !.fmu_models = @ \o SensorFmus(actor_name)]
                ELSE scn4
    IN  IF waypoints = << >>
        THEN st
        ELSE [scenario |-> scn5, targets |-> targets]

RECURSIVE ProcessFiles(_, _, _, _, _, _, _)
ProcessFiles(st, idx, files, folder, folder_name, configs, fmu_model_path) ==
    IF idx > Len(files) THEN st
    ELSE ProcessFiles(
            ProcessFile(st, idx, files[idx], folder, folder_name, configs, fmu_model_path),
            idx + 1, files, folder, folder_name, configs, fmu_model_path)

\* The whole function: the document it writes and the add_sensors_to_vehicles
\* list as the call leaves it.  order is what os.listdir returned.
ScenarioOf(folder, order, folder_name, fmu_model_path, configs_arg, targets_arg, weather_preset, renderer_viewport_config) ==
    LET configs == IF configs_arg = NoneValue THEN DefaultSensorConfigs ELSE ValueOf(configs_arg)
        targets == IF targets_arg = NoneValue THEN << >> ELSE ValueOf(targets_arg)
        trajectory_files == SortStrings(ListTrajectoryFiles(order))
    IN  ProcessFiles(
            [ scenario |-> BaseScenario(configs, weather_preset, renderer_viewport_config),
              targets |-> targets ],
            1, trajectory_files, folder, folder_name, configs, fmu_model_path)

-----------------------------------------------------------------------------
(* The inputs of generate_scenario_json *)

FileStems == { <<"1">>, <<"2">>, <<"1", "2">>, <<"1", "_", "2">>, << >> }

TrajectoryFileNames == { stem \o TRAJECTORY_SUFFIX : stem \in FileStems }

OtherFileNames ==
    { <<"1", ".", "j", "s", "o", "n">>,
      <<"2">> \o TRAJECTORY_SUFFIX \o <<".", "b", "a", "k">> }

FileNames == TrajectoryFileNames \cup OtherFileNames

Waypoint1 == [time |-> 0, lat |-> 34, lon |-> -118, alt |-> 50000]

Waypoint2 == [time |-> 10, lat |-> 33, lon |-> -117]

\* what json.load returns for a trajectory file
FileContents == { << >>, <<Waypoint1, Waypoint2>>, <<Waypoint2, Waypoint1>> }

Folders ==
    UNION { [names -> FileContents] :
                names \in { n \in SUBSET FileNames : Cardinality(n) <= MaxFiles } }

\* the orders in which os.listdir can return a set of names
Listings(names) ==
    { order \in [1..Cardinality(names) -> names] :
        \A i, j \in 1..Cardinality(names) : order[i] = order[j] => i = j }

SensorConfigArgs ==
    { NoneValue,
      Some(<< [sensor_name |-> "rgb_camera_0", type |-> "sensors/cameras/rgb_camera"],
              [sensor_name |-> "depth_camera_0", type |-> "sensors/cameras/depth_camera"] >>) }

TargetArgs ==
    { NoneValue, Some(<< >>), Some(<<ActorName(<<"2">>)>>),
      Some(<<ActorName(<<"1">>), ActorName(<<"1", "2">>)>>) }

DefaultFmuModelPath == "dev_scripts/fmu/trajectory_follower_fmu_model.fmu"

\* the track generator, not yet constructed
NoGenerator ==
    /\ cfg = NoneValue
    /\ selector_arg = NoneValue
    /\ tracks = << >>
    /\ ownship_file = NoneValue
    /\ rng = 0
    /\ generated = NoneValue
    /\ csv_file = NoneValue
    /\ saved = NoneValue

\* the conversion utilities and the lone track generator, not in use
NoConversion ==
    /\ csv_folder = << >>
    /\ json_folder = NoneValue
    /\ converted = NoneValue
    /\ input_csv = << >>
    /\ filtered_csv = NoneValue
    /\ tracks_folder = NoneValue
    /\ filtered = NoneValue
    /\ processed = NoneValue
    /\ base_generator = NoneValue
    /\ track_point = NoneValue
    /\ relative_generator = NoneValue
    /\ relative_track = NoneValue

InitScenario ==
    /\ NoGenerator
    /\ NoConversion
    /\ dir \in Folders
    /\ listing = << >>
    /\ sensor_configs \in SensorConfigArgs
    /\ add_sensors_to_vehicles \in TargetArgs
    /\ targets_in = NoneValue
    /\ output_file = NoneValue

\* generate_scenario_json(S_trajectories, output_file, sensor_configs=...,
\* add_sensors_to_vehicles=...): a None list argument is replaced by a fresh
\* local list, any other list is the caller's object and keeps what the call
\* appended to it.
GenerateScenarioJson ==
    \E order \in Listings(DOMAIN dir) :
        LET final == ScenarioOf(dir, order, S_trajectories, DefaultFmuModelPath,
                                sensor_configs, add_sensors_to_vehicles,
                                "Cloudy", DefaultViewportConfig)
        IN  /\ listing' = order
            /\ targets_in' = add_sensors_to_vehicles
            /\ output_file' = Some(final.scenario)
            /\ add_sensors_to_vehicles' =
                    IF add_sensors_to_vehicles = NoneValue
                    THEN NoneValue ELSE Some(final.targets)
            /\ UNCHANGED <<dir, sensor_configs, trackVars, conversionVars, pointVars>>

NextScenario == GenerateScenarioJson

SpecScenario == InitScenario /\ [][NextScenario]_vars

-----------------------------------------------------------------------------
(* Properties of generate_scenario_json *)

\* a call has returned and written its document
Written == output_file # NoneValue

Document == ValueOf(output_file)

Actors == Document.world.actors

Sensors == Document.world.sensors

SyncTopics == Document.orchestrator.sync_topics

\* the trajectory-follower models and the sensor-publisher models, in
\* document order (only a publisher carries a component_type)
FollowerModels ==
    SelectSeq(Document.fmu_models, LAMBDA m : "component_type" \notin DOMAIN m)

PublisherModels ==
    SelectSeq(Document.fmu_models, LAMBDA m : "component_type" \in DOMAIN m)

\* the *_trajectory.json files of the folder, and those with waypoints
TrajectoryFilesOfDir == { f \in DOMAIN dir : EndsWith(f, TRAJECTORY_SUFFIX) }

NonEmptyFilesOfDir == { f \in TrajectoryFilesOfDir : dir[f] # << >> }

EmptyFilesOfDir == { f \in TrajectoryFilesOfDir : dir[f] = << >> }

\* a set of names in lexicographic order
LexOrdered(names) ==
    CHOOSE order \in Listings(names) :
        \A i, j \in 1..Len(order) : i < j => StrLess(order[i], order[j])

NonEmptyInOrder == LexOrdered(NonEmptyFilesOfDir)

\* the configurations the call attaches: the caller's, or the default
ConfigsUsed ==
    IF sensor_configs = NoneValue THEN DefaultSensorConfigs ELSE ValueOf(sensor_configs)

NoTargetList == targets_in = NoneValue \/ targets_in = Some(<< >>)

ExpectedOrigin(wp) ==
    [ latitude |-> wp.lat, longitude |-> wp.lon,
      altitude |-> IF "alt" \in DOMAIN wp THEN wp.alt ELSE 11609 ]

\* C1: the world origin is the first waypoint (alt, or 116.09 when absent) of
\* the first non-empty trajectory in lexicographic file order, also when
\* empty trajectory files sort before it.
C1_OriginIsFirstNonEmpty ==
    (Written /\ NonEmptyFilesOfDir # {}) =>
        Document.world.origin = ExpectedOrigin(dir[NonEmptyInOrder[1]][1])

\* C2: without a target actor list, whenever an actor is emitted the sensors
\* are exactly one entry per sensor configuration, each with the first
\* emitted actor as parent.
C2_SensorsOnFirstActor ==
    (Written /\ NoTargetList /\ Len(Actors) >= 1) =>
        /\ Len(Sensors) = Len(ConfigsUsed)
        /\ \A i \in 1..Len(Sensors) :
              /\ Sensors[i].parent = Actors[1].actor_name
              /\ Sensors[i].sensor_name = ConfigsUsed[i].sensor_name
              /\ Sensors[i].type = ConfigsUsed[i].type

\* C3: whenever an actor is emitted the document holds exactly the three
\* publisher models gnss, adsb and imu, each reading the first emitted
\* actor's vehicle-state topic and naming aerosim.<first actor>.sensor.<kind>.
C3_PublishersOnFirstActor ==
    (Written /\ Len(Actors) >= 1) =>
        /\ Len(PublisherModels) = 3
        /\ [i \in 1..3 |-> PublisherModels[i].id]
              = <<"gnss_publisher", "adsb_publisher", "imu_publisher">>
        /\ \A i \in 1..3 :
              PublisherModels[i].component_input_topics =
                  << [ msg_type |-> "aerosim::types::VehicleState",
                       topic |-> Actors[1].state.topic ] >>
        /\ [i \in 1..3 |-> PublisherModels[i].fmu_initial_vals.value]
              = << S_aerosim \o Actors[1].actor_name \o S_sensor_gnss,
                   S_aerosim \o Actors[1].actor_name \o S_sensor_adsb,
                   S_aerosim \o Actors[1].actor_name \o S_sensor_imu >>

\* the trajectory files a model or an actor can stem from: the path the
\* follower model of file f names
PathOfFile(f) == S_trajectories \o <<"/">> \o f

\* C4: an empty trajectory file is skipped without aborting the assembly and
\* contributes no actor, sync topic, sensor or component model; the actors
\* are as many as the non-empty *_trajectory.json files of the folder.
C4_EmptyFilesSkipped ==
    Written =>
        /\ Len(Actors) = Cardinality(NonEmptyFilesOfDir)
        /\ Len(SyncTopics) = Cardinality(NonEmptyFilesOfDir)
        /\ Len(FollowerModels) = Cardinality(NonEmptyFilesOfDir)
        /\ Len(Sensors) <= Len(ConfigsUsed) * Cardinality(NonEmptyFilesOfDir)
        /\ Len(PublisherModels) <= 3 * Cardinality(NonEmptyFilesOfDir)
        /\ \A f \in EmptyFilesOfDir : \A i \in 1..Len(FollowerModels) :
              FollowerModels[i].fmu_initial_vals.waypoints_json_path # PathOfFile(f)

C4_Witness ==
    /\ Written
    /\ EmptyFilesOfDir # {}
    /\ NonEmptyFilesOfDir # {}
    /\ Len(Actors) = 1

\* C5: on a folder with no trajectory file the call completes and writes a
\* document whose actors, sensors, sync topics and component models are all
\* empty.
C5_NoFilesEmptyDocument ==
    (Written /\ TrajectoryFilesOfDir = {}) =>
        /\ Actors = << >>
        /\ Sensors = << >>
        /\ SyncTopics = << >>
        /\ Document.fmu_models = << >>

C5_Witness ==
    /\ Written
    /\ DOMAIN dir = {}
    /\ Actors = << >>

\* C6: two distinct non-empty trajectory files, whatever their names, give
\* actors with distinct names, distinct state, visualization and effector
\* topics and distinct follower model ids.
C6_DistinctNames ==
    Written =>
        \A i, j \in 1..Len(Actors) :
            i # j =>
                /\ Actors[i].actor_name # Actors[j].actor_name
                /\ Actors[i].state.topic # Actors[j].state.topic
                /\ Actors[i].trajectory_visualization.topic
                      # Actors[j].trajectory_visualization.topic
                /\ Actors[i].effectors[1].state.topic # Actors[j].effectors[1].state.topic
                /\ FollowerModels[i].id # FollowerModels[j].id

\* C7: sync_topics corresponds one to one, in order, to the actors: entry k
\* is aerosim.<actor k's name>.vehicle_state, which is actor k's state topic,
\* at 20 ms.
C7_SyncTopicsMatchActors ==
    Written =>
        /\ Len(SyncTopics) = Len(Actors)
        /\ \A k \in 1..Len(Actors) :
              /\ SyncTopics[k] =
                    [ topic |-> S_aerosim \o Actors[k].actor_name \o S_vehicle_state,
                      interval_ms |-> 20 ]
              /\ SyncTopics[k].topic = Actors[k].state.topic

C7_Witness ==
    /\ Written
    /\ Len(Actors) >= 2
    /\ SyncTopics[1].topic # SyncTopics[2].topic

\* C8: every emitted actor has one trajectory-follower model: model k names
\* the trajectory file actor k was made from (folder joined with file name)
\* and publishes exactly actor k's vehicle-state and visualization topics.
C8_FollowerPerActor ==
    Written =>
        /\ Len(FollowerModels) = Len(Actors)
        /\ \A k \in 1..Len(Actors) :
              /\ FollowerModels[k].fmu_initial_vals.waypoints_json_path
                    = PathOfFile(NonEmptyInOrder[k])
              /\ Actors[k].actor_name = S_actor \o SplitFirst(NonEmptyInOrder[k], "_")
              /\ FollowerModels[k].component_output_topics =
                    << [ msg_type |-> "aerosim::types::VehicleState",
                         topic |-> Actors[k].state.topic ],
                       [ msg_type |-> "aerosim::types::TrajectoryVisualization",
                         topic |-> Actors[k].trajectory_visualization.topic ] >>

C8_Witness ==
    /\ Written
    /\ Len(Actors) >= 2
    /\ FollowerModels[2].fmu_initial_vals.waypoints_json_path
          = PathOfFile(<<"2">> \o TRAJECTORY_SUFFIX)

\* C9: the actors, and with them the sync topics and the follower models,
\* are in the lexicographic order of the non-empty trajectory file names,
\* whatever order the directory listing had and whatever the numeric order
\* of the track ids.
C9_LexicographicOrder ==
    Written =>
        /\ [k \in 1..Len(Actors) |-> Actors[k].actor_name]
              = [k \in 1..Len(NonEmptyInOrder) |->
                    S_actor \o SplitFirst(NonEmptyInOrder[k], "_")]
        /\ [k \in 1..Len(SyncTopics) |-> SyncTopics[k].topic]
              = [k \in 1..Len(NonEmptyInOrder) |->
                    S_aerosim \o S_actor \o SplitFirst(NonEmptyInOrder[k], "_")
                        \o S_vehicle_state]
        /\ [k \in 1..Len(FollowerModels) |->
                    FollowerModels[k].fmu_initial_vals.waypoints_json_path]
              = [k \in 1..Len(NonEmptyInOrder) |-> PathOfFile(NonEmptyInOrder[k])]

\* the listing returned 2_trajectory.json before 12_trajectory.json, and the
\* document has actor12 before actor2
C9_Witness ==
    /\ Written
    /\ listing = << <<"2">> \o TRAJECTORY_SUFFIX, <<"1", "2">> \o TRAJECTORY_SUFFIX >>
    /\ Len(Actors) = 2
    /\ Actors[1].actor_name = S_actor \o <<"1", "2">>
    /\ Actors[2].actor_name = S_actor \o <<"2">>

-----------------------------------------------------------------------------
(* ArtificialTrackGenerator *)

\* Angles, distances and positions are floating-point results of
\* trigonometric laws; a position is kept as the term that computes it.
\* Latitudes and longitudes the code only adds are in microdegrees, altitudes
\* in metres, times in seconds from base_start_time.

INITIAL_TRACK_ID == 10000

\* str.lower() on the selectors and formats of the model
Lower(selector) ==
    CASE selector = "CIRCULAR" -> "circular"
      [] selector = "Spiral" -> "spiral"
      [] selector = "JSON" -> "json"
      [] selector = "Behind" -> "behind"
      [] selector = "OPPOSITE" -> "opposite"
      [] OTHER -> selector

\* the random module: a draw returns the state and advances it
Draw(state, k) == (state + k) % RngPeriod

\* random.uniform(min_alt, max_alt) from a draw
UniformAlt(min_alt, max_alt, draw) == min_alt + (draw % (max_alt - min_alt + 1))

\* how many random draws one point of a maneuver takes, and which is the
\* altitude's (the random maneuver draws delta_lat and delta_lon first)
DrawsPerPoint(law) == IF law = "random" THEN 4 ELSE 2

AltitudeDraw(law) == IF law = "random" THEN 2 ELSE 0

\* the decimal digits, by value + 1
DigitChars == <<"0", "1", "2", "3", "4", "5", "6", "7", "8", "9">>

DigitValue(c) == (CHOOSE i \in 1..Len(DigitChars) : DigitChars[i] = c) - 1

\* int(s) for a str of decimal digits, 0 for the empty str
RECURSIVE ParseDecimal(_)
ParseDecimal(s) ==
    IF s = << >> THEN 0
    ELSE ParseDecimal(SubSeq(s, 1, Len(s) - 1)) * 10 + DigitValue(s[Len(s)])

\* str(n) for n >= 0
RECURSIVE Decimal(_)
Decimal(n) ==
    IF n < 10 THEN <<DigitChars[n + 1]>>
    ELSE Decimal(n \div 10) \o <<DigitChars[(n % 10) + 1]>>

\* the digits left as they are, without padding
ZeroPadNone(digits, width) == digits

\* digits filled with "0" on the left up to width; longer digits are kept
RECURSIVE ZeroPad(_, _)
ZeroPad(digits, width) ==
    IF Len(digits) >= width THEN digits
    ELSE ZeroPad(<<"0">> \o digits, width)

\* the width of the format specification 05d
TRACK_ID_WIDTH == 5

\* f"{track_id:05d}" for track_id >= 0
Format05d(track_id) == ZeroPad(Decimal(track_id), TRACK_ID_WIDTH)

\* BaseTrackGenerator._create_track_point
CreateTrackPoint(g, lon, lat, alt, time_delta, hex_draw) ==
    [ eventName |-> "track.appended",
      trackId |-> Format05d(g.track_id),
      sourceId |-> g.source_id,
      trackType |-> g.track_type,
      timestamp |-> g.start_time + time_delta,
      data |-> [hex_icao |-> hex_draw, alt_baro |-> alt],
      altitudeReference |-> g.altitude_reference,
      sourceTrackId |-> <<g.source_id, g.track_id>>,
      longitude |-> lon,
      latitude |-> lat,
      altitude |-> alt,
      aglAltitude |-> [times_0_35 |-> alt],
      mslAltitude |-> alt,
      wgs84Altitude |-> alt - 50,
      distance_m |-> [haversine_from |-> <<g.center_lon, g.center_lat>>, to |-> <<lon, lat>>] ]

\* a generator left with the default track_id of __init__
BaseTrackGeneratorDefaultId(law, center_lat, center_lon, center_alt, min_alt, max_alt, track_id) ==
    [ law |-> law,
      center_lat |-> center_lat, center_lon |-> center_lon, center_alt |-> center_alt,
      min_alt |-> min_alt, max_alt |-> max_alt,
      track_id |-> 10000, source_id |-> "ARTIFICIAL", track_type |-> "Surveillance",
      altitude_reference |-> "MSL", start_time |-> 0 ]

\* BaseTrackGenerator.__init__ with the keyword arguments generate_track gives
BaseTrackGenerator(law, center_lat, center_lon, center_alt, min_alt, max_alt, track_id) ==
    [ law |-> law,
      center_lat |-> center_lat, center_lon |-> center_lon, center_alt |-> center_alt,
      min_alt |-> min_alt, max_alt |-> max_alt,
      track_id |-> track_id, source_id |-> "ARTIFICIAL", track_type |-> "Surveillance",
      altitude_reference |-> "MSL", start_time |-> 0 ]

\* a selection whose last branch is the circular generator
SelectGeneratorCircular(gen_class) ==
    IF gen_class \in {"random", "elliptical", "flyby", "square", "rectangle", "zigzag",
                      "spiral"}
    THEN gen_class
    ELSE "circular"

\* ArtificialTrackGenerator._select_generator: the maneuver of the class chosen
SelectGenerator(gen_class) ==
    IF gen_class \in {"random", "circular", "elliptical", "flyby", "square", "rectangle",
                      "zigzag", "spiral"}
    THEN gen_class
    ELSE "random"

\* the indices i of the loop of a maneuver's generate(): range(num_points), or
\* the positions of path[::step] for the 8-point perimeter of square and
\* rectangle
PerimeterLength == 8

PointIndices(law, num_points) ==
    IF law \in {"square", "rectangle"}
    THEN LET step == IF PerimeterLength \div num_points > 1
                     THEN PerimeterLength \div num_points ELSE 1
         IN  [i \in 1..((PerimeterLength + step - 1) \div step) |-> (i - 1) * step]
    ELSE [i \in 1..num_points |-> i - 1]

\* the division by zero in a maneuver's generate(): len(path) // num_points for
\* square and rectangle, i / (num_points - 1) for flyby
DividesByZero(law, num_points) ==
    \/ law \in {"square", "rectangle"} /\ num_points = 0
    \/ law = "flyby" /\ num_points = 1

Raised(error) == [raised |-> TRUE, error |-> error, points |-> << >>, draws |-> 0]

Returned(points, draws) == [raised |-> FALSE, error |-> "", points |-> points, draws |-> draws]

\* a position offset drawn for every maneuver
DeltaDrawAlways(law, axis, rnd, first) == Draw(rnd, first + (IF axis = "lat" THEN 0 ELSE 1))

\* the draw that enters the position offset of a point whose draws begin at
\* first: random.uniform(-0.01, 0.01) for delta_lat, then for delta_lon, in
\* RandomTrackGenerator; no draw (-1) in the parametric maneuvers
DeltaDraw(law, axis, rnd, first) ==
    IF law = "random" THEN Draw(rnd, first + (IF axis = "lat" THEN 0 ELSE 1)) ELSE -1

\* <Maneuver>TrackGenerator.generate(num_points, interval_seconds) of generator
\* g with the random module in state rnd
ManeuverGenerate(g, num_points, interval_seconds, rnd) ==
    IF DividesByZero(g.law, num_points) THEN Raised("ZeroDivisionError")
    ELSE LET at == PointIndices(g.law, num_points)
             per == DrawsPerPoint(g.law)
         IN  Returned(
                [k \in 1..Len(at) |->
                    CreateTrackPoint(g,
                        [law |-> g.law, axis |-> "lon", center |-> g.center_lon,
                         i |-> at[k], n |-> num_points,
                         delta |-> DeltaDraw(g.law, "lon", rnd, (k - 1) * per)],
                        [law |-> g.law, axis |-> "lat", center |-> g.center_lat,
                         i |-> at[k], n |-> num_points,
                         delta |-> DeltaDraw(g.law, "lat", rnd, (k - 1) * per)],
                        UniformAlt(g.min_alt, g.max_alt,
                                   Draw(rnd, (k - 1) * per + AltitudeDraw(g.law))),
                        (k - 1) * interval_seconds,
                        Draw(rnd, (k - 1) * per + per - 1))],
                Len(at) * per)

\* ArtificialTrackGenerator.generate_track
GenerateTrack(c, track_id, center_lat, center_lon, start_time, rnd) ==
    LET g == BaseTrackGenerator(SelectGenerator(c.track_generator_class),
                                center_lat, center_lon, c.center_alt,
                                c.min_alt, c.max_alt, track_id)
    IN  ManeuverGenerate([g EXCEPT !.start_time = start_time],
                         c.num_points, c.interval_seconds, rnd)

\* pt.get(key, pt.get(other)): NoneValue when the point has neither key
GetEither(pt, key, other) ==
    IF key \in DOMAIN pt THEN Some(pt[key])
    ELSE IF other \in DOMAIN pt THEN Some(pt[other])
    ELSE NoneValue

\* the normalisation of the keys of a JSON point
NormalizeKeys(pt) ==
    LET add == { k \in {"lat", "lon", "alt"} :
                    /\ k \notin DOMAIN pt
                    /\ (CASE k = "lat" -> "latitude" [] k = "lon" -> "longitude"
                          [] OTHER -> "altitude") \in DOMAIN pt }
    IN  [k \in DOMAIN pt \cup add |->
            IF k \in DOMAIN pt THEN pt[k]
            ELSE pt[CASE k = "lat" -> "latitude" [] k = "lon" -> "longitude"
                      [] OTHER -> "altitude"]]

\* a CSV cell float() accepts is <<number>>, any other cell is << >>
RowParses(row) ==
    /\ Len(row) >= 3
    /\ \A j \in 1..3 : row[j] # NoneValue

\* the rows of a CSV file that become trajectory points, by row index from 0
RECURSIVE ParseCsvRows(_, _)
ParseCsvRows(rows, i) ==
    IF i >= Len(rows) THEN << >>
    ELSE LET row == rows[i + 1]
         IN  IF RowParses(row)
             THEN << [ time |-> IF Len(row) > 3 THEN ValueOf(row[4]) ELSE i,
                       lat |-> ValueOf(row[1]),
                       lon |-> ValueOf(row[2]),
                       alt |-> ValueOf(row[3]) ] >> \o ParseCsvRows(rows, i + 1)
             ELSE ParseCsvRows(rows, i + 1)

\* a loader that reads any format other than csv as JSON
LoadOwnshipDefaultJson(file, file_format) ==
    IF file = NoneValue THEN Raised("FileNotFoundError")
    ELSE IF Lower(file_format) = "csv"
    THEN Returned(IF ValueOf(file).kind = "csv" THEN ParseCsvRows(ValueOf(file).data, 0)
                  ELSE << >>, 0)
    ELSE IF ValueOf(file).kind # "json" THEN Raised("JSONDecodeError")
    ELSE Returned([i \in 1..Len(ValueOf(file).data) |->
                       NormalizeKeys(ValueOf(file).data[i])], 0)

\* load_ownship_trajectory(file_path, file_format), file being what is at
\* file_path: NoneValue, or the parsed content of a JSON or a CSV file
LoadOwnshipTrajectory(file, file_format) ==
    IF Lower(file_format) = "json"
    THEN IF file = NoneValue THEN Raised("FileNotFoundError")
         ELSE IF ValueOf(file).kind # "json" THEN Raised("JSONDecodeError")
         ELSE Returned([i \in 1..Len(ValueOf(file).data) |->
                            NormalizeKeys(ValueOf(file).data[i])], 0)
    ELSE IF Lower(file_format) = "csv"
    THEN IF file = NoneValue THEN Raised("FileNotFoundError")
         ELSE IF ValueOf(file).kind # "csv" THEN Returned(<< >>, 0)
         ELSE IF \E i \in 1..Len(ValueOf(file).data) :
                    LET row == ValueOf(file).data[i]
                    IN  RowParses(row) /\ Len(row) > 3 /\ row[4] = NoneValue
         THEN Raised("ValueError")
         ELSE Returned(ParseCsvRows(ValueOf(file).data, 0), 0)
    ELSE Raised("ValueError")

\* OwnshipRelativeTrackGenerator.generate: the bearing at sample i (from 0) of
\* n is that of the segment to the next sample, at the last sample the
\* previous segment's, and 0.0 for a single sample
BearingAt(i, n) ==
    IF i < n - 1 THEN [kind |-> "segment", from |-> i, to |-> i + 1]
    ELSE IF n >= 2 THEN [kind |-> "segment", from |-> n - 2, to |-> n - 1]
    ELSE [kind |-> "zero", from |-> 0, to |-> 0]

\* every direction offset along the bearing
OffsetBearingAhead(relative_direction, bearing) == [bearing |-> bearing, plus_pi |-> FALSE]

\* offset_bearing: the bearing, (bearing + math.pi) % (2 * math.pi) for "opposite"
OffsetBearing(relative_direction, bearing) ==
    [bearing |-> bearing, plus_pi |-> relative_direction = "opposite"]

\* offset_distance: the separation, negated for "behind"
OffsetDistance(relative_direction, separation_distance) ==
    IF relative_direction = "behind" THEN -separation_distance ELSE separation_distance

\* OwnshipRelativeTrackGenerator.__init__ with the keyword arguments generate()
\* gives; start_time is datetime.now(), second 0 of the model
OwnshipRelativeTrackGenerator(ownship_track, separation_distance, relative_direction, alt_offset, track_id) ==
    BaseTrackGenerator("ownship_relative", 0, 0, 0, 0, 0, track_id)
       @@ [ ownship_track |-> ownship_track,
            separation_distance |-> separation_distance,
            relative_direction |-> Lower(relative_direction),
            alt_offset |-> alt_offset ]

\* a sample the generator cannot use: no latitude, longitude or altitude
Unusable(pt) ==
    \/ GetEither(pt, "lat", "latitude") = NoneValue
    \/ GetEither(pt, "lon", "longitude") = NoneValue
    \/ GetEither(pt, "alt", "altitude") = NoneValue

NoPosition(pt) ==
    \/ GetEither(pt, "lat", "latitude") = NoneValue
    \/ GetEither(pt, "lon", "longitude") = NoneValue

\* the body of the loop of OwnshipRelativeTrackGenerator.generate for sample k
\* (from 1) of a usable ownship
RelativePoint(g, ownship, k, separation_distance, alt_offset, rnd) ==
    LET pt == ownship[k]
        lat == ValueOf(GetEither(pt, "lat", "latitude"))
        lon == ValueOf(GetEither(pt, "lon", "longitude"))
        alt == ValueOf(GetEither(pt, "alt", "altitude"))
        time_delta == IF "time" \in DOMAIN pt THEN pt.time ELSE (k - 1) * 10
        dest == [law |-> "destination", lat |-> lat, lon |-> lon,
                 bearing |-> OffsetBearing(g.relative_direction,
                                           BearingAt(k - 1, Len(ownship))),
                 distance |-> OffsetDistance(g.relative_direction, separation_distance)]
    IN  CreateTrackPoint(g,
            [dest EXCEPT !.law = "destination_lon"],
            [dest EXCEPT !.law = "destination_lat"],
            alt + alt_offset, time_delta, Draw(rnd, k - 1))

\* a loop over the samples that have a next sample only
RelativeGenerateSegments(g, ownship, separation_distance, alt_offset, rnd) ==
    IF \E i \in 1..Len(ownship) : Unusable(ownship[i]) THEN Raised("TypeError")
    ELSE Returned(
            [k \in 1..(Len(ownship) - 1) |->
                RelativePoint(g, ownship, k, separation_distance, alt_offset, rnd)],
            Len(ownship) - 1)

RelativeGenerate(g, ownship, separation_distance, alt_offset, rnd) ==
    LET n == Len(ownship)
        bad == { i \in 1..n : Unusable(ownship[i]) \/ (i < n /\ NoPosition(ownship[i + 1])) }
    IN  IF bad # {}
        THEN [Raised("TypeError") EXCEPT !.draws = (CHOOSE i \in bad : \A j \in bad : i <= j) - 1]
        ELSE Returned(
                [k \in 1..n |->
                    RelativePoint(g, ownship, k, separation_distance, alt_offset, rnd)],
                n)

\* the relative tracks 1..count of fly-along mode, each drawing after the one
\* before it; the first that raises ends the call
RECURSIVE RelativeTracks(_, _, _, _, _)
RelativeTracks(c, ownship, i, count, rnd) ==
    IF i > count THEN [raised |-> FALSE, error |-> "", tracks |-> << >>, rnd |-> rnd]
    ELSE LET g == [ OwnshipRelativeTrackGenerator(ownship, c.separation_distance * 111000,
                                                  "ahead", 0, INITIAL_TRACK_ID + i)
                        EXCEPT !.start_time = i * c.time_delay ]
             one == RelativeGenerate(g, g.ownship_track, g.separation_distance,
                                     g.alt_offset, rnd)
             rest == RelativeTracks(c, ownship, i + 1, count, Draw(rnd, one.draws))
         IN  IF one.raised
             THEN [raised |-> TRUE, error |-> one.error, tracks |-> << >>,
                   rnd |-> Draw(rnd, one.draws)]
             ELSE [rest EXCEPT !.tracks = <<one.points>> \o @]

\* every track centred where the first is
TrackCenterLatFixed(c, i) == c.center_lat

\* track_center_lat of track i of independent mode: offset_deg further north
TrackCenterLat(c, i) == c.center_lat + c.separation_distance * i

\* track_start_time of track i, in seconds from base_start_time
TrackStartTime(c, i) == i * c.time_delay

\* the tracks i..count-1 of independent mode
RECURSIVE IndependentTracks(_, _, _, _)
IndependentTracks(c, i, count, rnd) ==
    IF i >= count THEN [raised |-> FALSE, error |-> "", tracks |-> << >>, rnd |-> rnd]
    ELSE LET one == GenerateTrack(c, INITIAL_TRACK_ID + i,
                                  TrackCenterLat(c, i),
                                  c.center_lon, TrackStartTime(c, i), rnd)
             rest == IndependentTracks(c, i + 1, count, Draw(rnd, one.draws))
         IN  IF one.raised
             THEN [raised |-> TRUE, error |-> one.error, tracks |-> << >>,
                   rnd |-> Draw(rnd, one.draws)]
             ELSE [rest EXCEPT !.tracks = <<one.points>> \o @]

\* ArtificialTrackGenerator.generate in fly-along mode
FlyAlongTracks(c, file, rnd) ==
    LET ownship == IF c.ownship_trajectory_file # NoneValue
                   THEN LoadOwnshipTrajectory(file, c.ownship_format)
                   ELSE GenerateTrack(c, INITIAL_TRACK_ID, c.center_lat, c.center_lon, 0, rnd)
        others == RelativeTracks(c, ownship.points, 1, c.num_tracks - 1,
                                 Draw(rnd, ownship.draws))
    IN  IF ownship.raised
        THEN [raised |-> TRUE, error |-> ownship.error, tracks |-> << >>, rnd |-> rnd]
        ELSE [others EXCEPT !.tracks = IF others.raised THEN << >> ELSE <<ownship.points>> \o @]

\* ArtificialTrackGenerator.generate
GenerateTracks(c, file, rnd) ==
    IF c.fly_along
    THEN FlyAlongTracks(c, file, rnd)
    ELSE IndependentTracks(c, 0, c.num_tracks, rnd)

-----------------------------------------------------------------------------
(* The generators and ownship files of the model *)

SelectorArgs ==
    { "random", "circular", "elliptical", "flyby", "square", "rectangle", "zigzag",
      "spiral", "hexagon", "CIRCULAR" }

OwnshipFormats == { "json", "csv", "xml", "JSON" }

OwnshipPath == <<"o", "w", "n", "s", "h", "i", "p">>

\* num_points of the module's example usage
EXAMPLE_NUM_POINTS == 20

NumPointsArgs == 0..MaxPoints \cup {EXAMPLE_NUM_POINTS}

\* the altitude bands (min_alt, max_alt) of the model
AltitudeBands == { <<1000, 1000>>, <<900, 902>> }

JsonOwnships ==
    { << >>,
      << [time |-> 0, lat |-> 34000000, lon |-> -118000000, alt |-> 500],
         [time |-> 7, lat |-> 34001000, lon |-> -118000000, alt |-> 510] >>,
      << [latitude |-> 34000000, longitude |-> -118000000, altitude |-> 2000] >>,
      << [time |-> 0, lat |-> 34000000, lon |-> -118000000] >>,
      [k \in 1..5 |-> [time |-> (k - 1) * 10, lat |-> 34000000 + k * 1000,
                       lon |-> -118000000, alt |-> 1000]] }

CsvOwnships ==
    { << <<NoneValue, NoneValue, NoneValue>>,
         <<Some(34000000), Some(-118000000), Some(500)>>,
         <<Some(34001000), Some(-118000000), Some(510), Some(5)>> >> }

OwnshipFiles ==
    {NoneValue}
        \cup { Some([kind |-> "json", data |-> d]) : d \in JsonOwnships }
        \cup { Some([kind |-> "csv", data |-> d]) : d \in CsvOwnships }

\* ArtificialTrackGenerator.__init__
ArtificialTrackGenerator(num_tracks, track_generator_class, band, fly_along, ownship_trajectory_file, ownship_format, num_points, interval_seconds) ==
    [ num_tracks |-> num_tracks,
      track_generator_class |-> Lower(track_generator_class),
      center_lat |-> 33750000,
      center_lon |-> -118250000,
      center_alt |-> 1000,
      separation_distance |-> 5000,
      time_delay |-> 30,
      min_alt |-> band[1],
      max_alt |-> band[2],
      fly_along |-> fly_along,
      ownship_trajectory_file |-> ownship_trajectory_file,
      ownship_format |-> ownship_format,
      num_points |-> num_points,
      interval_seconds |-> interval_seconds ]

\* the trajectories folder, not in use
NoScenario ==
    /\ dir = << >>
    /\ listing = << >>
    /\ sensor_configs = NoneValue
    /\ add_sensors_to_vehicles = NoneValue
    /\ targets_in = NoneValue
    /\ output_file = NoneValue

InitTracks ==
    /\ NoScenario
    /\ NoConversion
    /\ \E num_tracks \in 0..MaxTracks, selector \in SelectorArgs, band \in AltitudeBands,
          num_points \in NumPointsArgs, interval_seconds \in {5, 10},
          mode \in {"independent", "fly_along", "fly_along_file"},
          format \in OwnshipFormats :
            /\ mode # "fly_along_file" => format = "json"
            /\ cfg = Some(ArtificialTrackGenerator(
                        num_tracks, selector, band, mode # "independent",
                        IF mode = "fly_along_file" THEN Some(OwnshipPath) ELSE NoneValue,
                        format, num_points, interval_seconds))
            /\ selector_arg = Some(selector)
    /\ ownship_file \in OwnshipFiles
    /\ ValueOf(cfg).ownship_trajectory_file = NoneValue => ownship_file = NoneValue
    /\ tracks = << >>
    /\ rng \in 0..(RngPeriod - 1)
    /\ generated = NoneValue
    /\ csv_file = NoneValue
    /\ saved = NoneValue

\* generator.generate(): self.tracks is assigned only when the call returns
Generate ==
    LET out == GenerateTracks(ValueOf(cfg), ownship_file, rng)
    IN  /\ generated' = Some([raised |-> out.raised, error |-> out.error,
                              tracks |-> out.tracks])
        /\ tracks' = IF out.raised THEN tracks ELSE out.tracks
        /\ rng' = out.rnd
        /\ UNCHANGED <<cfg, selector_arg, ownship_file, csv_file, saved, scenarioVars, conversionVars, pointVars>>

\* save_to_csv: fieldnames
FIELDNAMES ==
    << "eventName", "trackId", "sourceId", "trackType", "timestamp", "data",
       "altitudeReference", "sourceTrackId", "longitude", "latitude", "altitude",
       "aglAltitude", "mslAltitude", "wgs84Altitude", "distance_m" >>

FieldNameSet == { FIELDNAMES[j] : j \in 1..Len(FIELDNAMES) }

\* the points of all tracks, in the order of the two loops of save_to_csv
RECURSIVE Flatten(_)
Flatten(ts) == IF ts = << >> THEN << >> ELSE Head(ts) \o Flatten(Tail(ts))

\* csv.DictWriter.writerow with extrasaction 'raise': a key outside fieldnames
\* is a ValueError
HasExtraKeys(point) == ~(DOMAIN point \subseteq FieldNameSet)

\* the row of a point without extra keys: a missing field is written as ''
CsvRow(point) ==
    [j \in 1..Len(FIELDNAMES) |->
        IF FIELDNAMES[j] \in DOMAIN point THEN Some(point[FIELDNAMES[j]]) ELSE Some("")]

\* generator.save_to_csv(filepath): nothing without tracks; else the header
\* and the rows up to the first point writerow rejects
SaveToCsv ==
    IF tracks = << >>
    THEN /\ saved' = Some([raised |-> FALSE, error |-> "", rows |-> 0])
         /\ UNCHANGED <<cfg, selector_arg, tracks, ownship_file, rng, generated, csv_file, scenarioVars, conversionVars, pointVars>>
    ELSE LET points == Flatten(tracks)
             bad == { k \in 1..Len(points) : HasExtraKeys(points[k]) }
             written == IF bad = {} THEN Len(points)
                        ELSE (CHOOSE k \in bad : \A j \in bad : k <= j) - 1
         IN  /\ csv_file' = Some([header |-> FIELDNAMES,
                                  rows |-> [k \in 1..written |-> CsvRow(points[k])]])
             /\ saved' = Some([raised |-> bad # {},
                               error |-> IF bad # {} THEN "ValueError" ELSE "",
                               rows |-> written])
             /\ UNCHANGED <<cfg, selector_arg, tracks, ownship_file, rng, generated, scenarioVars, conversionVars, pointVars>>

NextTracks == Generate \/ SaveToCsv

SpecTracks == InitTracks /\ [][NextTracks]_vars

\* the last generate() returned
GenerateReturned == generated # NoneValue /\ ~ValueOf(generated).raised

ReturnedTracks == ValueOf(generated).tracks

\* C10: generate returns exactly num_tracks tracks for every num_tracks >= 0,
\* in independent mode and in fly-along mode with a generated or a loaded
\* ownship.
C10_ReturnsNumTracks ==
    GenerateReturned => Len(ReturnedTracks) = ValueOf(cfg).num_tracks

-----------------------------------------------------------------------------
(* conversion.py: filter_tracks and convert_tracks_to_json *)

\* Track ids are str, as csv.DictReader and an object column of pandas give
\* them.  A timestamp is the number of seconds parse_timestamp makes of it,
\* NoneValue when parse_timestamp raises ValueError.  Whether a row is within
\* ref_range_m of the reference point is the row's field near.

MaxCsvFiles == 2      \* files in input_folder

\* str.lower() on the characters of the file names of the model
LowerChar(c) ==
    CASE c = "C" -> "c" [] c = "S" -> "s" [] c = "V" -> "v" [] c = "T" -> "t"
      [] OTHER -> c

LowerChars(s) == [i \in 1..Len(s) |-> LowerChar(s[i])]

IsDigits(s) == \A i \in 1..Len(s) : \E d \in 1..Len(DigitChars) : DigitChars[d] = s[i]

\* int(float(s)) for s of digits with at most one ".": the digits before the
\* point; NoneValue where float(s) raises ValueError
IntOfFloat(s) ==
    LET dots == { i \in 1..Len(s) : s[i] = "." }
        point == IF dots = {} THEN Len(s) + 1 ELSE CHOOSE i \in dots : TRUE
        whole == SubSeq(s, 1, point - 1)
        frac == SubSeq(s, point + 1, Len(s))
    IN  IF /\ Cardinality(dots) <= 1
           /\ IsDigits(whole) /\ IsDigits(frac)
           /\ Len(whole) + Len(frac) >= 1
        THEN Some(ParseDecimal(whole))
        ELSE NoneValue

\* try: n = int(float(track_id)) / except ValueError: n = track_id
TrackNum(track_id) ==
    IF IntOfFloat(track_id) = NoneValue
    THEN [is_int |-> FALSE, int |-> 0, str |-> track_id]
    ELSE [is_int |-> TRUE, int |-> ValueOf(IntOfFloat(track_id)), str |-> << >>]

\* f"{track_num:05d}": NoneValue for the ValueError format code d raises on
\* a str
FormatTrackNum(track_num) ==
    IF track_num.is_int THEN Some(Format05d(track_num.int)) ELSE NoneValue

S_track_ == <<"t", "r", "a", "c", "k", "_">>

S_csv == <<".", "c", "s", "v">>

\* the distinct track ids of rows, in the order of their first row
RECURSIVE FirstIds(_)
FirstIds(rows) ==
    IF rows = << >> THEN << >>
    ELSE LET before == FirstIds(SubSeq(rows, 1, Len(rows) - 1))
             id == rows[Len(rows)].trackId
         IN  IF \E j \in 1..Len(before) : before[j] = id THEN before
             ELSE Append(before, id)

\* rows.sort(key=parsed_ts): a stable sort
RECURSIVE SortByTimestamp(_)
SortByTimestamp(rows) ==
    IF rows = << >> THEN << >>
    ELSE LET sorted == SortByTimestamp(SubSeq(rows, 1, Len(rows) - 1))
             row == rows[Len(rows)]
             keep == { j \in 1..Len(sorted) : ValueOf(sorted[j].timestamp) <= ValueOf(row.timestamp) }
         IN  SubSeq(sorted, 1, Cardinality(keep)) \o <<row>>
                \o SubSeq(sorted, Cardinality(keep) + 1, Len(sorted))

\* whether parse_timestamp gives the row an offset-aware datetime: the text
\* ends with Z or carries an offset; without either the datetime is naive
TzAware(row) == row.zone # ""

\* rows.sort(key=parsed_ts) raises TypeError when a track holds an aware and
\* a naive datetime: the two cannot be compared
SortRaises(rows) ==
    \E a, b \in 1..Len(rows) :
        /\ rows[a].timestamp # NoneValue /\ rows[b].timestamp # NoneValue
        /\ rows[a].trackId = rows[b].trackId
        /\ TzAware(rows[a]) /\ ~TzAware(rows[b])

\* process_csv: the trajectories by track id, in the order the dict holds them
ProcessCsv(rows) ==
    LET parsed == SelectSeq(rows, LAMBDA row : row.timestamp # NoneValue)
        ids == FirstIds(parsed)
    IN  [ j \in 1..Len(ids) |->
            LET mine == SortByTimestamp(SelectSeq(parsed, LAMBDA row : row.trackId = ids[j]))
            IN  [ track_id |-> ids[j],
                  trajectory |->
                    [ k \in 1..Len(mine) |->
                        [ time |-> ValueOf(mine[k].timestamp) - ValueOf(mine[1].timestamp),
                          lat |-> mine[k].latitude,
                          lon |-> mine[k].longitude,
                          alt |-> IF mine[k].mslAltitude # NoneValue
                                  THEN ValueOf(mine[k].mslAltitude)
                                  ELSE mine[k].altitude ] ] ] ]

\* a folder after a file is written at path: a file already there is replaced
WriteFile(folder, path, content) ==
    { f \in folder : f.path # path } \cup { [path |-> path, content |-> content] }

RECURSIVE WriteFiles(_, _)
WriteFiles(folder, writes) ==
    IF writes = << >> THEN folder
    ELSE WriteFiles(WriteFile(folder, Head(writes).path, Head(writes).content), Tail(writes))

Wrote(writes) == [raised |-> FALSE, error |-> "", writes |-> writes]

Failed(error, writes) == [raised |-> TRUE, error |-> error, writes |-> writes]

\* convert_tracks_to_json: the loop over trajectories.items() from entry j;
\* the writes made, and the error that ended the loop
RECURSIVE WriteTrajectories(_, _, _)
WriteTrajectories(trajectories, j, output_folder) ==
    IF j > Len(trajectories) THEN Wrote(<< >>)
    ELSE LET name == FormatTrackNum(TrackNum(trajectories[j].track_id))
             rest == WriteTrajectories(trajectories, j + 1, output_folder)
         IN  IF name = NoneValue THEN Failed("ValueError", << >>)
             ELSE [rest EXCEPT !.writes =
                      << [ path |-> PathJoin(output_folder, ValueOf(name) \o TRAJECTORY_SUFFIX),
                           content |-> trajectories[j].trajectory ] >> \o @]

\* convert_tracks_to_json: the loop over os.listdir(input_folder) from file k
RECURSIVE ConvertFiles(_, _, _)
ConvertFiles(files, k, output_folder) ==
    IF k > Len(files) THEN Wrote(<< >>)
    ELSE IF ~EndsWith(LowerChars(files[k].name), S_csv)
    THEN ConvertFiles(files, k + 1, output_folder)
    ELSE IF SortRaises(files[k].rows) THEN Failed("TypeError", << >>)
    ELSE LET one == WriteTrajectories(ProcessCsv(files[k].rows), 1, output_folder)
             rest == ConvertFiles(files, k + 1, output_folder)
         IN  IF one.raised THEN one
             ELSE [rest EXCEPT !.writes = one.writes \o @]

\* pandas sorts the keys of groupby: a column of numbers by value, a column
\* of str by code point
KeyLess(a, b, numeric) ==
    IF numeric THEN ValueOf(IntOfFloat(a)) < ValueOf(IntOfFloat(b)) ELSE StrLess(a, b)

RECURSIVE SortKeys(_, _)
SortKeys(keys, numeric) ==
    IF keys = << >> THEN << >>
    ELSE LET sorted == SortKeys(SubSeq(keys, 1, Len(keys) - 1), numeric)
             key == keys[Len(keys)]
             below == { j \in 1..Len(sorted) : KeyLess(sorted[j], key, numeric) }
         IN  SubSeq(sorted, 1, Cardinality(below)) \o <<key>>
                \o SubSeq(sorted, Cardinality(below) + 1, Len(sorted))

\* filter_tracks: the rows with a position, within ref_range_m, with their
\* distance_m column
FilteredRows(rows) ==
    LET kept == SelectSeq(rows, LAMBDA row :
                    row.latitude # NoneValue /\ row.longitude # NoneValue /\ row.near)
    IN  [ k \in 1..Len(kept) |->
            [ trackId |-> kept[k].trackId,
              latitude |-> ValueOf(kept[k].latitude),
              longitude |-> ValueOf(kept[k].longitude),
              distance_m |-> [geodesic_to |-> <<ValueOf(kept[k].latitude),
                                                ValueOf(kept[k].longitude)>>] ] ]

\* filter_tracks: the loop over filtered_df.groupby("trackId") from key j
RECURSIVE WriteGroups(_, _, _, _)
WriteGroups(rows, keys, j, folder) ==
    IF j > Len(keys) THEN Wrote(<< >>)
    ELSE LET name == FormatTrackNum(TrackNum(keys[j]))
             rest == WriteGroups(rows, keys, j + 1, folder)
         IN  IF name = NoneValue THEN Failed("ValueError", << >>)
             ELSE [rest EXCEPT !.writes =
                      << [ path |-> PathJoin(folder, S_track_ \o ValueOf(name) \o S_csv),
                           content |-> SelectSeq(rows, LAMBDA row : row.trackId = keys[j]) ] >>
                         \o @]

\* the track ids, file names and files of the model
ID_7 == <<"7">>

ID_10000 == <<"1", "0", "0", "0", "0">>

ID_12_7 == <<"1", "2", ".", "7">>

ID_abc == <<"a", "b", "c">>

CsvFileNames ==
    { <<"t", ".", "c", "s", "v">>, <<"T", ".", "C", "S", "V">>, <<"t", ".", "t", "x", "t">> }

TrackRow(track_id, timestamp, mslAltitude) ==
    [ trackId |-> track_id, timestamp |-> timestamp, zone |-> "Z", latitude |-> 34000000,
      longitude |-> -118000000, mslAltitude |-> mslAltitude, altitude |-> 400 ]

\* a row whose timestamp text has neither Z nor an offset
NaiveRow(track_id, timestamp, mslAltitude) ==
    [TrackRow(track_id, timestamp, mslAltitude) EXCEPT !.zone = ""]

CsvTrackFiles ==
    { << >>,
      << TrackRow(ID_7, Some(11), Some(500)), TrackRow(ID_12_7, Some(12), NoneValue),
         TrackRow(ID_7, Some(10), Some(510)) >>,
      << TrackRow(ID_abc, Some(11), Some(500)) >>,
      << TrackRow(ID_7, Some(12), Some(500)), NaiveRow(ID_7, Some(11), Some(500)) >>,
      << NaiveRow(ID_7, Some(12), Some(500)), NaiveRow(ID_7, Some(12), Some(510)),
         NaiveRow(ID_7, Some(11), Some(520)), TrackRow(ID_10000, Some(11), Some(500)) >>,
      << TrackRow(ID_10000, NoneValue, Some(500)), TrackRow(ID_10000, Some(5), Some(500)) >>,
      << TrackRow(ID_7, Some(1), Some(500)), TrackRow(ID_abc, Some(2), Some(500)),
         TrackRow(ID_10000, Some(3), Some(500)) >> }

InputFolders ==
    { files \in UNION { [1..n -> [name : CsvFileNames, rows : CsvTrackFiles]] : n \in 0..MaxCsvFiles } :
        \A i, j \in 1..Len(files) : i # j => files[i].name # files[j].name }

DataRow(track_id, latitude, near) ==
    [ trackId |-> track_id, latitude |-> latitude, longitude |-> Some(-118000000),
      near |-> near ]

InputCsvs ==
    { << >>,
      << DataRow(ID_7, Some(34000000), TRUE), DataRow(ID_10000, Some(34000000), TRUE),
         DataRow(ID_7, Some(34001000), TRUE) >>,
      << DataRow(ID_7, Some(34000000), TRUE), DataRow(ID_abc, Some(34000000), TRUE),
         DataRow(ID_10000, Some(34000000), TRUE) >>,
      << DataRow(ID_10000, Some(34000000), TRUE), DataRow(ID_7, NoneValue, TRUE),
         DataRow(ID_abc, Some(35000000), FALSE) >> }

OUTPUT_FOLDER == <<"o", "u", "t">>

TRACKS_FOLDER == <<"t", "r", "a", "c", "k", "s">>

InitConversion ==
    /\ NoScenario
    /\ NoGenerator
    /\ base_generator = NoneValue
    /\ track_point = NoneValue
    /\ relative_generator = NoneValue
    /\ relative_track = NoneValue
    /\ csv_folder \in InputFolders
    /\ json_folder = NoneValue
    /\ converted = NoneValue
    /\ input_csv \in InputCsvs
    /\ filtered_csv = NoneValue
    /\ tracks_folder = NoneValue
    /\ filtered = NoneValue
    /\ processed = NoneValue

\* the files of a folder that may not exist yet
FilesOf(folder) == IF folder = NoneValue THEN {} ELSE ValueOf(folder)

\* convert_tracks_to_json(input_folder, output_folder)
ConvertTracksToJson ==
    LET out == ConvertFiles(csv_folder, 1, OUTPUT_FOLDER)
    IN  /\ json_folder' = Some(WriteFiles(FilesOf(json_folder), out.writes))
        /\ converted' = Some([raised |-> out.raised, error |-> out.error])
        /\ UNCHANGED <<csv_folder, input_csv, filtered_csv, tracks_folder, filtered,
                       processed, scenarioVars, trackVars, pointVars>>

\* filter_tracks(input_csv_path, filtered_csv_path, tracks_folder, ...)
FilterTracks ==
    LET rows == FilteredRows(input_csv)
        numeric == \A k \in 1..Len(input_csv) : IntOfFloat(input_csv[k].trackId) # NoneValue
        keys == SortKeys(FirstIds(rows), numeric)
        out == WriteGroups(rows, keys, 1, TRACKS_FOLDER)
    IN  /\ filtered_csv' = Some(rows)
        /\ tracks_folder' = Some(WriteFiles(FilesOf(tracks_folder), out.writes))
        /\ filtered' = Some([raised |-> out.raised, error |-> out.error])
        /\ UNCHANGED <<csv_folder, json_folder, converted, input_csv, processed,
                       scenarioVars, trackVars, pointVars>>

\* process_csv(csv_path) on a file of input_folder
ProcessCsvFile ==
    \E k \in 1..Len(csv_folder) :
        LET rows == csv_folder[k].rows
        IN  /\ processed' = Some([ rows |-> rows,
                                   raised |-> SortRaises(rows),
                                   trajectories |-> IF SortRaises(rows) THEN << >>
                                                    ELSE ProcessCsv(rows) ])
            /\ UNCHANGED <<csv_folder, json_folder, converted, input_csv, filtered_csv,
                           tracks_folder, filtered, scenarioVars, trackVars, pointVars>>

NextConversion == ConvertTracksToJson \/ FilterTracks \/ ProcessCsvFile

SpecConversion == InitConversion /\ [][NextConversion]_vars

\* the track ids convert_tracks_to_json meets in input_folder
IdsToConvert ==
    UNION { { ProcessCsv(csv_folder[k].rows)[j].track_id :
                j \in 1..Len(ProcessCsv(csv_folder[k].rows)) } :
            k \in { k \in 1..Len(csv_folder) :
                      EndsWith(LowerChars(csv_folder[k].name), S_csv) } }

\* the track ids filter_tracks groups the filtered rows by
IdsToFilter == { FilteredRows(input_csv)[k].trackId : k \in 1..Len(FilteredRows(input_csv)) }

Paths(folder) == { f.path : f \in FilesOf(folder) }

\* C19: when a track id cannot be converted to an integer,
\* convert_tracks_to_json and filter_tracks do not fail: the id is kept as a
\* str label and the track's file is still written under that label.
C19_UnconvertibleIdIsLabel ==
    /\ converted # NoneValue =>
          /\ ~ValueOf(converted).raised
          /\ \A id \in IdsToConvert :
                IntOfFloat(id) = NoneValue =>
                    PathJoin(OUTPUT_FOLDER, id \o TRAJECTORY_SUFFIX) \in Paths(json_folder)
    /\ filtered # NoneValue =>
          /\ ~ValueOf(filtered).raised
          /\ \A id \in IdsToFilter :
                IntOfFloat(id) = NoneValue =>
                    PathJoin(TRACKS_FOLDER, S_track_ \o id \o S_csv) \in Paths(tracks_folder)

-----------------------------------------------------------------------------
(* A BaseTrackGenerator of any track id *)

MaxTrackId == 100000  \* track_id of the generator: every id of up to 5 digits, and the next

\* the arguments of the calls of _create_track_point
TimeDeltaArgs == {0, 10}

InitPoint ==
    /\ NoScenario
    /\ NoGenerator
    /\ csv_folder = << >>
    /\ json_folder = NoneValue
    /\ converted = NoneValue
    /\ input_csv = << >>
    /\ filtered_csv = NoneValue
    /\ tracks_folder = NoneValue
    /\ filtered = NoneValue
    /\ processed = NoneValue
    /\ \E track_id \in 0..MaxTrackId :
          base_generator = Some(BaseTrackGenerator("base", 33750000, -118250000, 1000,
                                                   1000, 1000, track_id))
    /\ track_point = NoneValue
    /\ relative_generator = NoneValue
    /\ relative_track = NoneValue

\* generator._create_track_point(lon, lat, alt, time_delta)
CreatePoint ==
    \E time_delta \in TimeDeltaArgs :
        /\ track_point' = Some(CreateTrackPoint(ValueOf(base_generator), -118250000, 33750000,
                                          1000, time_delta, Draw(rng, 0)))
        /\ rng' = Draw(rng, 1)
        /\ UNCHANGED <<cfg, selector_arg, tracks, ownship_file, generated, csv_file, saved,
                       base_generator, relative_generator, relative_track,
                       scenarioVars, conversionVars>>

NextPoint == CreatePoint

SpecPoint == InitPoint /\ [][NextPoint]_vars

\* C20: the trackId of a point is the generator's integer track id in
\* decimal, left-padded with zeros to 5 digits: 10000 gives "10000", 7 gives
\* "00007"; for every id in 0..99999 it has exactly 5 digits and parses back
\* to the id.
C20_TrackIdFiveDigits ==
    track_point # NoneValue /\ ValueOf(base_generator).track_id < 10^TRACK_ID_WIDTH =>
        /\ Len(ValueOf(track_point).trackId) = 5
        /\ IsDigits(ValueOf(track_point).trackId)
        /\ ParseDecimal(ValueOf(track_point).trackId) = ValueOf(base_generator).track_id
        /\ ValueOf(base_generator).track_id = 10000 =>
              ValueOf(track_point).trackId = <<"1", "0", "0", "0", "0">>
        /\ ValueOf(base_generator).track_id = 7 =>
              ValueOf(track_point).trackId = <<"0", "0", "0", "0", "7">>

\* a generator of track id 7 made a point with trackId "00007"
C20_Witness ==
    /\ track_point # NoneValue
    /\ ValueOf(base_generator).track_id = 7
    /\ ValueOf(track_point).trackId = <<"0", "0", "0", "0", "7">>

-----------------------------------------------------------------------------
(* Track ids and times *)

\* the last generate() returned, in independent mode
IndependentReturned == GenerateReturned /\ ~ValueOf(cfg).fly_along

\* the start time generate() gave track i (from 1)
TrackStart(i) == (i - 1) * ValueOf(cfg).time_delay

\* C11: in independent mode, track i (0-based) carries track id 10000 + i on
\* every one of its points, so the ids of the tracks are pairwise distinct and
\* sequential; circular tracks have num_points points each, at time offsets
\* 0, interval_seconds, 2 * interval_seconds, ... from the track's own start
\* (3 tracks of 20 points at 10 s: offsets 0..190, ids 10000, 10001, 10002).
C11_SequentialIds ==
    IndependentReturned =>
        /\ \A i \in 1..Len(ReturnedTracks) : \A k \in 1..Len(ReturnedTracks[i]) :
              ParseDecimal(ReturnedTracks[i][k].trackId) = INITIAL_TRACK_ID + (i - 1)
        /\ \A i, j \in 1..Len(ReturnedTracks) :
              \A k \in 1..Len(ReturnedTracks[i]), m \in 1..Len(ReturnedTracks[j]) :
                 i # j => ReturnedTracks[i][k].trackId # ReturnedTracks[j][m].trackId
        /\ ValueOf(cfg).track_generator_class = "circular" =>
              \A i \in 1..Len(ReturnedTracks) :
                 /\ Len(ReturnedTracks[i]) = ValueOf(cfg).num_points
                 /\ \A k \in 1..Len(ReturnedTracks[i]) :
                       ReturnedTracks[i][k].timestamp - TrackStart(i)
                          = (k - 1) * ValueOf(cfg).interval_seconds

\* 3 circular tracks of 20 points at 10 s: the last point of the third track
\* has id 10002 and is 190 s after the track's start
C11_Witness ==
    /\ IndependentReturned
    /\ ValueOf(cfg).track_generator_class = "circular"
    /\ ValueOf(cfg).num_points = 20 /\ ValueOf(cfg).interval_seconds = 10
    /\ Len(ReturnedTracks) = 3
    /\ ReturnedTracks[1][1].trackId = <<"1", "0", "0", "0", "0">>
    /\ ReturnedTracks[2][1].trackId = <<"1", "0", "0", "0", "1">>
    /\ ReturnedTracks[3][20].trackId = <<"1", "0", "0", "0", "2">>
    /\ ReturnedTracks[3][20].timestamp - TrackStart(3) = 190

\* C12: SquareTrackGenerator.generate and RectangleTrackGenerator.generate
\* return exactly num_points points for every num_points >= 1, sampling the
\* 8-element perimeter path at stride max(1, floor(8 / num_points)).
C12_PerimeterReturnsNumPoints ==
    /\ IndependentReturned
    /\ ValueOf(cfg).track_generator_class \in {"square", "rectangle"}
    /\ ValueOf(cfg).num_points >= 1
    => \A i \in 1..Len(ReturnedTracks) :
          Len(ReturnedTracks[i]) = ValueOf(cfg).num_points

-----------------------------------------------------------------------------
(* Altitudes *)

\* the altitude a point carries: a generated point's altitude, a loaded
\* ownship sample's alt
PointAltitude(pt) == GetEither(pt, "altitude", "alt")

WithinBand(pt) ==
    PointAltitude(pt) # NoneValue =>
        /\ ValueOf(cfg).min_alt <= ValueOf(PointAltitude(pt))
        /\ ValueOf(PointAltitude(pt)) <= ValueOf(cfg).max_alt

\* C13: every point of every track generate() returns, whichever maneuver
\* made it, the ownship-relative generator and fly-along mode with a loaded
\* ownship included, has min_alt <= altitude <= max_alt.
C13_AltitudeWithinBand ==
    GenerateReturned =>
        \A i \in 1..Len(ReturnedTracks) : \A k \in 1..Len(ReturnedTracks[i]) :
            WithinBand(ReturnedTracks[i][k])

-----------------------------------------------------------------------------
(* Times *)

\* the tracks of the last result whose points a generator made: all but a
\* loaded ownship
MadeTracks ==
    { i \in 1..Len(ReturnedTracks) :
        i = 1 => ValueOf(cfg).ownship_trajectory_file = NoneValue }

\* the offset of point k of track i from the track's start time
TimeOffset(i, k) == ReturnedTracks[i][k].timestamp - TrackStart(i)

\* tracks made by the maneuver generator generate_track selects
ManeuverTracks ==
    { i \in MadeTracks : ~ValueOf(cfg).fly_along \/ i = 1 }

\* C14: every generated track, of any maneuver or ownship-relative off a
\* generated or a loaded reference, has strictly increasing timestamps and a
\* first point at offset 0 from the track's start; point i of a parametric
\* maneuver has offset i * interval_seconds.
C14_TimesIncreaseFromZero ==
    GenerateReturned =>
        /\ \A i \in MadeTracks :
              /\ ReturnedTracks[i] # << >> => TimeOffset(i, 1) = 0
              /\ \A k \in 1..(Len(ReturnedTracks[i]) - 1) :
                    ReturnedTracks[i][k].timestamp < ReturnedTracks[i][k + 1].timestamp
        /\ \A i \in ManeuverTracks : \A k \in 1..Len(ReturnedTracks[i]) :
              TimeOffset(i, k) = (k - 1) * ValueOf(cfg).interval_seconds

-----------------------------------------------------------------------------
(* Fly-along mode *)

FlyAlongReturned == GenerateReturned /\ ValueOf(cfg).fly_along

\* the position of an ownship sample, generated or loaded
SampleLat(pt) == ValueOf(GetEither(pt, "lat", "latitude"))

SampleLon(pt) == ValueOf(GetEither(pt, "lon", "longitude"))

\* C15: in fly-along mode every relative track (tracks 1..N-1) has exactly as
\* many points as the ownship track, point k being the offset of ownship
\* sample k; an ownship of 5 points with num_tracks = 2 gives a second track
\* of exactly 5 points.
C15_RelativeMatchesOwnship ==
    FlyAlongReturned =>
        \A i \in 2..Len(ReturnedTracks) :
            /\ Len(ReturnedTracks[i]) = Len(ReturnedTracks[1])
            /\ \A k \in 1..Len(ReturnedTracks[i]) :
                  /\ ReturnedTracks[i][k].latitude.lat = SampleLat(ReturnedTracks[1][k])
                  /\ ReturnedTracks[i][k].longitude.lon = SampleLon(ReturnedTracks[1][k])

\* an ownship of 5 samples and num_tracks = 2: two tracks of 5 points
C15_Witness ==
    /\ FlyAlongReturned
    /\ ValueOf(cfg).num_tracks = 2
    /\ Len(ReturnedTracks) = 2
    /\ Len(ReturnedTracks[1]) = 5
    /\ Len(ReturnedTracks[2]) = 5
    /\ ReturnedTracks[2][5].latitude.lat = SampleLat(ReturnedTracks[1][5])

-----------------------------------------------------------------------------
(* The record set *)

\* C16: every point of every track generate() returns, in both modes and
\* track 0 of fly-along mode with a loaded ownship included, is a record with
\* exactly the 15 columns of save_to_csv, so save_to_csv writes all tracks
\* without an error.
C16_FixedColumnsSaved ==
    /\ GenerateReturned =>
          \A i \in 1..Len(ReturnedTracks) : \A k \in 1..Len(ReturnedTracks[i]) :
              DOMAIN ReturnedTracks[i][k] = FieldNameSet
    /\ saved # NoneValue => ~ValueOf(saved).raised

-----------------------------------------------------------------------------
(* Errors *)

\* fly-along mode with an ownship file in a format other than json and csv
UnsupportedFormat ==
    /\ ValueOf(cfg).fly_along
    /\ ValueOf(cfg).ownship_trajectory_file # NoneValue
    /\ Lower(ValueOf(cfg).ownship_format) \notin {"json", "csv"}

\* C17: an ownship format other than json or csv is fatal: a generate() in
\* fly-along mode with an ownship file ends with the loader's ValueError
\* instead of tracks, and leaves the generator's stored tracks as they were.
C17_UnsupportedFormatFatal ==
    [][ cfg # NoneValue /\ UnsupportedFormat /\ generated' # generated =>
            /\ ValueOf(generated').raised
            /\ ValueOf(generated').error = "ValueError"
            /\ ValueOf(generated').tracks = << >>
            /\ tracks' = tracks ]_vars

\* format xml with a readable JSON ownship file: generate() raised ValueError
C17_Witness ==
    /\ cfg # NoneValue
    /\ UnsupportedFormat
    /\ ValueOf(cfg).ownship_format = "xml"
    /\ ownship_file # NoneValue
    /\ ValueOf(ownship_file).kind = "json"
    /\ Len(ValueOf(ownship_file).data) = 2
    /\ generated # NoneValue
    /\ ValueOf(generated).raised
    /\ ValueOf(generated).error = "ValueError"
    /\ tracks = << >>

\* the maneuver selectors the generator knows
KnownSelectors ==
    {"random", "circular", "elliptical", "flyby", "square", "rectangle", "zigzag", "spiral"}

\* the maneuver a selector argument names, letter case aside; "random" for
\* any other
ExpectedLaw(arg) ==
    CASE arg \in {"circular", "CIRCULAR"} -> "circular"
      [] arg \in KnownSelectors -> arg
      [] OTHER -> "random"

\* C18: an unknown maneuver selector is not an error: with any selector
\* outside the eight known ones (letter case aside) the tracks are made by
\* the random generator and generate() in independent mode returns; a known
\* selector always gets its own generator.
C18_UnknownSelectorIsRandom ==
    /\ GenerateReturned =>
          \A i \in ManeuverTracks : \A k \in 1..Len(ReturnedTracks[i]) :
              /\ ReturnedTracks[i][k].longitude.law = ExpectedLaw(ValueOf(selector_arg))
              /\ ReturnedTracks[i][k].latitude.law = ExpectedLaw(ValueOf(selector_arg))
    /\ /\ generated # NoneValue
       /\ ExpectedLaw(ValueOf(selector_arg)) = "random"
       /\ ~ValueOf(cfg).fly_along
       => ~ValueOf(generated).raised

\* selector "hexagon": the tracks returned are the random generator's
C18_Witness ==
    /\ IndependentReturned
    /\ selector_arg = Some("hexagon")
    /\ Len(ReturnedTracks) = 2
    /\ Len(ReturnedTracks[2]) = 3
    /\ ReturnedTracks[2][3].longitude.law = "random"


\* ---------------------------------------------------------------------------
\* process_csv
\* ---------------------------------------------------------------------------

ProcessReturned == processed # NoneValue

\* the rows of track id whose timestamp parse_timestamp could parse
ParsableRows(id) ==
    { r \in 1..Len(ValueOf(processed).rows) :
        /\ ValueOf(processed).rows[r].trackId = id
        /\ ValueOf(processed).rows[r].timestamp # NoneValue }

ParsableIds ==
    { ValueOf(processed).rows[r].trackId :
        r \in { r \in 1..Len(ValueOf(processed).rows) :
                  ValueOf(processed).rows[r].timestamp # NoneValue } }

RowTime(r) == ValueOf(ValueOf(processed).rows[r].timestamp)

\* the earliest parsable timestamp of track id
BaseTime(id) == CHOOSE t \in { RowTime(r) : r \in ParsableRows(id) } :
                    \A r \in ParsableRows(id) : t <= RowTime(r)

\* C21: for every track id of a CSV file, the trajectory process_csv returns
\* has exactly one entry per record of that id with a parsable timestamp, the
\* entries are in timestamp order, and their relative times are
\* non-decreasing and start at 0, whatever the order of the records.
C21_TrajectoryOrderedFromZero ==
    ProcessReturned =>
       /\ ~ValueOf(processed).raised
       /\ \A id \in ParsableIds :
            \E j \in 1..Len(ValueOf(processed).trajectories) :
               LET trajectory == ValueOf(processed).trajectories[j].trajectory
               IN  /\ ValueOf(processed).trajectories[j].track_id = id
                   /\ Len(trajectory) = Cardinality(ParsableRows(id))
                   /\ trajectory[1].time = 0
                   /\ \A k \in 1..(Len(trajectory) - 1) :
                         trajectory[k].time <= trajectory[k + 1].time
                   /\ \A t \in { RowTime(r) : r \in ParsableRows(id) } :
                         Cardinality({ k \in 1..Len(trajectory) :
                                         trajectory[k].time + BaseTime(id) = t })
                           = Cardinality({ r \in ParsableRows(id) : RowTime(r) = t })


-----------------------------------------------------------------------------
(* Repeated runs *)

\* the maneuver law the generator's selector stands for
LawOfCfg == SelectGenerator(ValueOf(cfg).track_generator_class)

\* the fields of a point that hold an altitude or the hex identifier
DRAWN_FIELDS == {"data", "altitude", "aglAltitude", "mslAltitude", "wgs84Altitude"}

\* a point without them
WithoutDrawn(pt) == [f \in DOMAIN pt \ DRAWN_FIELDS |-> pt[f]]

\* two runs of generate() in a row, both returning, on the same generator
TwoRuns ==
    /\ GenerateReturned
    /\ generated' # NoneValue /\ ~ValueOf(generated').raised
    /\ cfg' = cfg /\ ownship_file' = ownship_file

-----------------------------------------------------------------------------
(* Independent mode: centres and start times *)

\* the centre the points of a track measure their distance_m from
CenterOf(pt) == pt.distance_m.haversine_from

\* C25: in independent mode track i (0-based) is centred at
\* (center_lat + separation_distance * i, center_lon) and starts at the base
\* start time plus time_delay * i: track 0 has no offset, and the starts of
\* consecutive tracks are exactly time_delay apart.
C25_IndependentOffsets ==
    IndependentReturned =>
        /\ \A i \in 1..Len(ReturnedTracks) : \A k \in 1..Len(ReturnedTracks[i]) :
              /\ CenterOf(ReturnedTracks[i][k])
                    = << ValueOf(cfg).center_lon,
                         ValueOf(cfg).center_lat + ValueOf(cfg).separation_distance * (i - 1) >>
              /\ k = 1 => ReturnedTracks[i][k].timestamp = ValueOf(cfg).time_delay * (i - 1)
        /\ \A i \in 1..(Len(ReturnedTracks) - 1) :
              (ReturnedTracks[i] # << >> /\ ReturnedTracks[i + 1] # << >>) =>
                 ReturnedTracks[i + 1][1].timestamp - ReturnedTracks[i][1].timestamp
                    = ValueOf(cfg).time_delay

\* three independent tracks with points: the third is centred 2 separations
\* north of the first and starts 60 s after it
C25_Witness ==
    /\ IndependentReturned
    /\ Len(ReturnedTracks) = 3
    /\ ReturnedTracks[1] # << >> /\ ReturnedTracks[3] # << >>
    /\ CenterOf(ReturnedTracks[1][1]) = <<-118250000, 33750000>>
    /\ CenterOf(ReturnedTracks[3][1]) = <<-118250000, 33760000>>
    /\ ReturnedTracks[1][1].timestamp = 0
    /\ ReturnedTracks[3][1].timestamp = 60


-----------------------------------------------------------------------------
(* An OwnshipRelativeTrackGenerator of any direction *)

\* the relative_direction arguments of the model
DirectionArgs == { "ahead", "behind", "opposite", "Behind", "OPPOSITE", "left" }

\* the reference trajectories: none, one, two and three samples, a sample
\* under the long key names, and a sample without altitude
ReferenceTracks ==
    { << >>,
      << [time |-> 0, lat |-> 34000000, lon |-> -118000000, alt |-> 500] >>,
      << [time |-> 0, lat |-> 34000000, lon |-> -118000000, alt |-> 500],
         [time |-> 7, lat |-> 34001000, lon |-> -118000000, alt |-> 510] >>,
      << [time |-> 0, lat |-> 34000000, lon |-> -118000000, alt |-> 500],
         [time |-> 10, lat |-> 34001000, lon |-> -118000000, alt |-> 510],
         [time |-> 20, lat |-> 34001000, lon |-> -118001000, alt |-> 520] >>,
      << [latitude |-> 34000000, longitude |-> -118000000, altitude |-> 2000],
         [latitude |-> 34000000, longitude |-> -118001000, altitude |-> 2000] >>,
      << [time |-> 0, lat |-> 34000000, lon |-> -118000000] >> }

SeparationArgs == {100, 555}

AltOffsetArgs == {0, 50}

InitRelative ==
    /\ NoScenario
    /\ NoGenerator
    /\ csv_folder = << >>
    /\ json_folder = NoneValue
    /\ converted = NoneValue
    /\ input_csv = << >>
    /\ filtered_csv = NoneValue
    /\ tracks_folder = NoneValue
    /\ filtered = NoneValue
    /\ processed = NoneValue
    /\ base_generator = NoneValue
    /\ track_point = NoneValue
    /\ \E ownship_track \in ReferenceTracks, separation_distance \in SeparationArgs,
          relative_direction \in DirectionArgs, alt_offset \in AltOffsetArgs :
          relative_generator = Some(OwnshipRelativeTrackGenerator(
                                       ownship_track, separation_distance,
                                       relative_direction, alt_offset, INITIAL_TRACK_ID + 1))
    /\ relative_track = NoneValue

\* relative_generator.generate()
GenerateRelative ==
    LET g == ValueOf(relative_generator)
        out == RelativeGenerate(g, g.ownship_track, g.separation_distance, g.alt_offset, rng)
    IN  /\ relative_track' = Some(out)
        /\ rng' = Draw(rng, out.draws)
        /\ UNCHANGED <<cfg, selector_arg, tracks, ownship_file, generated, csv_file, saved,
                       base_generator, track_point, relative_generator,
                       scenarioVars, conversionVars>>

NextRelative == GenerateRelative

SpecRelative == InitRelative /\ [][NextRelative]_vars

RelativeReturned == relative_track # NoneValue /\ ~ValueOf(relative_track).raised

RelativePoints == ValueOf(relative_track).points

\* the destination_point call that made point k: its bearing and distance
OffsetOf(k) == RelativePoints[k].latitude

ReferenceLen == Len(ValueOf(relative_generator).ownship_track)

\* C26: for a reference of n samples the bearing at sample i < n - 1 is that
\* from sample i to sample i + 1, at the final sample of n >= 2 the one used
\* at sample n - 2, and 0 for a single sample; the offset is along it for
\* "ahead", by the negated distance for "behind", along the bearing plus a
\* half turn for "opposite", and as for "ahead" for any other direction.
C26_BearingAndDirection ==
    RelativeReturned =>
       \A k \in 1..Len(RelativePoints) :
          LET i == k - 1
              n == ReferenceLen
              direction == ValueOf(relative_generator).relative_direction
              separation == ValueOf(relative_generator).separation_distance
          IN  /\ i < n - 1 =>
                    OffsetOf(k).bearing.bearing = [kind |-> "segment", from |-> i, to |-> i + 1]
              /\ (i = n - 1 /\ n >= 2) =>
                    /\ OffsetOf(k).bearing.bearing = OffsetOf(k - 1).bearing.bearing
                    /\ OffsetOf(k).bearing.bearing.from = n - 2
              /\ n = 1 => OffsetOf(k).bearing.bearing.kind = "zero"
              /\ OffsetOf(k).bearing.plus_pi = (direction = "opposite")
              /\ OffsetOf(k).distance = (IF direction = "behind" THEN -separation ELSE separation)
              /\ OffsetOf(k).lat = SampleLat(ValueOf(relative_generator).ownship_track[k])

\* three samples, direction "OPPOSITE": the last point repeats the bearing of
\* the segment before it, turned by half a turn
C26_Witness ==
    /\ RelativeReturned
    /\ ReferenceLen = 3
    /\ Len(RelativePoints) = 3
    /\ ValueOf(relative_generator).relative_direction = "opposite"
    /\ OffsetOf(3).bearing = [bearing |-> [kind |-> "segment", from |-> 1, to |-> 2],
                              plus_pi |-> TRUE]
    /\ OffsetOf(3).distance = ValueOf(relative_generator).separation_distance


-----------------------------------------------------------------------------
(* The parametric maneuvers at small num_points *)

\* the maneuvers whose generate() loops over range(num_points)
RangeLaws == {"random", "circular", "elliptical", "flyby", "zigzag", "spiral"}

\* the last generate() ran the maneuver generator generate_track selects
RanManeuver ==
    /\ generated # NoneValue
    /\ ValueOf(cfg).num_tracks >= 1
    /\ ~ValueOf(cfg).fly_along \/ ValueOf(cfg).ownship_trajectory_file = NoneValue

\* C27: for every num_points >= 1, num_points = 1 included, and every
\* maneuver among random, circular, elliptical, flyby, zigzag and spiral,
\* generate(num_points, interval_seconds) does not raise and returns exactly
\* num_points points; for num_points = 0 it returns an empty track.
C27_RangeManeuversReturnNumPoints ==
    (RanManeuver /\ LawOfCfg \in RangeLaws) =>
        /\ ~ValueOf(generated).raised
        /\ \A i \in ManeuverTracks : Len(ReturnedTracks[i]) = ValueOf(cfg).num_points


-----------------------------------------------------------------------------
(* Fly-along mode off a generated ownship *)

GeneratedOwnship == FlyAlongReturned /\ ValueOf(cfg).ownship_trajectory_file = NoneValue

\* C28: in fly-along mode with a generated ownship, for every
\* interval_seconds, point k of each relative track is as long after its
\* track's start time as point k of the ownship track is after the ownship's
\* start time, k * interval_seconds (k from 0).
C28_RelativeTimeAligned ==
    GeneratedOwnship =>
        \A i \in 2..Len(ReturnedTracks) : \A k \in 1..Len(ReturnedTracks[i]) :
            /\ TimeOffset(i, k) = TimeOffset(1, k)
            /\ TimeOffset(i, k) = (k - 1) * ValueOf(cfg).interval_seconds


-----------------------------------------------------------------------------
(* The caller's arguments *)

\* C29: generate_scenario_json does not modify the arguments of its caller:
\* after the call the add_sensors_to_vehicles list, an empty list included,
\* holds what it held when the call began (sensor_configs is never assigned),
\* so a repeated call with the same objects starts from the same arguments
\* as a call with fresh ones.
C29_ArgumentsUnmodified ==
    Written => add_sensors_to_vehicles = targets_in


-----------------------------------------------------------------------------
(* References inside the document *)

ActorNames == { Actors[i].actor_name : i \in 1..Len(Actors) }

ActorStateTopics == { Actors[i].state.topic : i \in 1..Len(Actors) }

AttachedSensorNames == { Sensors[i].sensor_name : i \in 1..Len(Sensors) }

\* every sensor's parent is an actor of world.actors
ParentsResolve == \A i \in 1..Len(Sensors) : Sensors[i].parent \in ActorNames

\* every input topic of a component model is the state topic of an actor
InputTopicsResolve ==
    \A m \in 1..Len(Document.fmu_models) :
        \A t \in 1..Len(Document.fmu_models[m].component_input_topics) :
            Document.fmu_models[m].component_input_topics[t].topic \in ActorStateTopics

\* every sensor the primary renderer lists is a sensor of world.sensors
RendererSensorsResolve ==
    \A r \in 1..Len(Document.renderers) :
        \A s \in 1..Len(Document.renderers[r].sensors) :
            Document.renderers[r].sensors[s] \in AttachedSensorNames

\* C30: in the document written for any folder and any target actor list,
\* every sensor's parent names an actor of world.actors, every input topic of
\* a component model is the state topic of an actor of world.actors, and
\* every sensor name the primary renderer lists is the sensor_name of an
\* entry of world.sensors.
C30_ReferentialIntegrity ==
    Written => (ParentsResolve /\ InputTopicsResolve /\ RendererSensorsResolve)

=============================================================================
